---- MODULE Spec2Model ----
(***************************************************************************)
(* CursorMovementAnalyzer (src/ai.py): feature extraction over a session   *)
(* of (Timestamp, X, Y) samples and the scaler + classifier train/predict  *)
(* state.                                                                  *)
(*                                                                         *)
(* Arithmetic.  pandas/numpy compute in IEEE-754 float64.  The derivative  *)
(* columns and their aggregates are kept as exact rationals extended with  *)
(* NaN and +/-inf, propagated by the IEEE rules (x/0, 0/0, inf-inf, NaN    *)
(* comparisons) and the pandas rules (skipna, ddof=1).  Timestamp deltas   *)
(* of the modelled sessions are 0 or powers of two, so every finite        *)
(* velocity and acceleration of the model is a float64 value.              *)
(***************************************************************************)
EXTENDS Integers, Sequences, FiniteSets, TLC

VARIABLES
    df,        \* the caller's DataFrame: column name -> sequence of values
    ret,       \* outcome of the last call made on the analyzer
    scaler,    \* self.scaler : fitted state of the StandardScaler
    model,     \* self.model  : fitted state of the RandomForestClassifier
    trained,   \* history: some train_model call has returned normally
    nan_ok,    \* the installed scikit-learn's forests accept NaN features
    \* src/game.py
    game_data,         \* the dict init_game() returns, as the loop updates it
    player_movements,  \* rows [timestamp, x, y] recorded for the player
    cursor_movements,  \* rows [timestamp, x, y] recorded for the cursor
    last_player_pos,   \* None, or the last player position seen
    last_cursor_pos,   \* None, or the last cursor position seen
    current_time,      \* pygame.time.get_ticks() as read at the top of the loop
    running,           \* the loop condition
    files,             \* file name -> data rows below the header
    pc,                \* place in the loop: "top", or "events" once the clock is read
    session_start,     \* history: current_time at the last clear_movement_data()
    analyses           \* history: analyses attempted since the last init_game()

analyzer_vars == <<df, ret, scaler, model, trained, nan_ok>>

game_vars ==
    <<game_data, player_movements, cursor_movements, last_player_pos, last_cursor_pos,
      current_time, running, files, pc, session_start, analyses>>

vars == <<analyzer_vars, game_vars>>

----------------------------------------------------------------------------
(* Bounds of the model.                                                    *)

\* largest number of rows of a session built for extract_features
MaxLen == 5

\* largest number of sessions (and of labels) handed to train_model
MaxTrain == 2

----------------------------------------------------------------------------
(* Extended rationals: float64 values NaN, +inf, -inf and n/d (d > 0).     *)

\* e, evaluated once, handed to F as a value
With(e, F(_)) == CHOOSE r \in {F(v) : v \in {e}} : TRUE

Abs(i) == IF i < 0 THEN -i ELSE i

Sign(i) == IF i < 0 THEN -1 ELSE IF i > 0 THEN 1 ELSE 0

RECURSIVE Gcd(_, _)
Gcd(a, b) == IF b = 0 THEN a ELSE Gcd(b, a % b)

NaN == [k |-> "nan", n |-> 0, d |-> 1]

Inf(s) == [k |-> "inf", n |-> s, d |-> 1]

\* the rational n/d in lowest terms, d # 0
Fin(n, d) ==
    LET g == Gcd(Abs(n), Abs(d))
        s == Sign(d)
    IN  [k |-> "fin", n |-> s * (n \div g), d |-> s * (d \div g)]

Zero == Fin(0, 1)

IsNaN(a) == a.k = "nan"

IsInf(a) == a.k = "inf"

IsFin(a) == a.k = "fin"

\* a + b by the IEEE rules
FAdd(a, b) ==
    IF IsNaN(a) \/ IsNaN(b) THEN NaN
    ELSE IF IsInf(a) /\ IsInf(b) THEN (IF a.n = b.n THEN a ELSE NaN)
    ELSE IF IsInf(a) THEN a
    ELSE IF IsInf(b) THEN b
    ELSE LET g == Gcd(a.d, b.d)
         IN  Fin(a.n * (b.d \div g) + b.n * (a.d \div g), a.d * (b.d \div g))

FNeg(a) == IF IsNaN(a) THEN NaN ELSE IF IsInf(a) THEN Inf(-a.n) ELSE Fin(-a.n, a.d)

FSub(a, b) == FAdd(a, FNeg(b))

\* a * b by the IEEE rules
FMul(a, b) ==
    IF IsNaN(a) \/ IsNaN(b) THEN NaN
    ELSE IF IsInf(a) \/ IsInf(b)
         THEN (IF a.n = 0 \/ b.n = 0 THEN NaN ELSE Inf(Sign(a.n) * Sign(b.n)))
    ELSE LET g1 == Gcd(Abs(a.n), b.d)
             g2 == Gcd(Abs(b.n), a.d)
         IN  Fin((a.n \div g1) * (b.n \div g2), (a.d \div g2) * (b.d \div g1))

\* a / b by the IEEE rules: x/0 is +/-inf, 0/0 is NaN, no exception
FDiv(a, b) ==
    IF IsNaN(a) \/ IsNaN(b) THEN NaN
    ELSE IF IsInf(b) THEN (IF IsInf(a) THEN NaN ELSE Zero)
    ELSE IF b.n = 0
         THEN (IF a.n = 0 THEN NaN ELSE Inf(Sign(a.n)))
    ELSE IF IsInf(a) THEN Inf(a.n * Sign(b.n))
    ELSE FMul(a, Fin(b.d, b.n))

\* a < b as a float comparison: False when either side is NaN
FLess(a, b) ==
    IF IsNaN(a) \/ IsNaN(b) THEN FALSE
    ELSE IF IsInf(a) THEN a.n < 0 /\ ~(IsInf(b) /\ b.n < 0)
    ELSE IF IsInf(b) THEN b.n > 0
    ELSE a.n * b.d < b.n * a.d

\* np.sqrt(a): the root is kept symbolically, [k |-> "sqrt"] of the radicand
FSqrt(a) ==
    IF IsNaN(a) THEN NaN
    ELSE IF IsInf(a) THEN (IF a.n > 0 THEN a ELSE NaN)
    ELSE IF a.n < 0 THEN NaN
    ELSE [k |-> "sqrt", n |-> a.n, d |-> a.d]

----------------------------------------------------------------------------
(* float64 square roots and sums, where rounding decides the result.       *)
(* direct_distance and path_distance (lines 36-39) are a square root and a *)
(* sum of square roots of integers; their quotient is compared with 1, and *)
(* that comparison turns on the last bit.  A non-negative float64 below    *)
(* 2^7 is kept as the integer value * 2^60, written in NL limbs of 15 bits *)
(* (least significant first); every operation rounds to 53 significant     *)
(* bits, to nearest, ties to even, as IEEE-754 does.                       *)

Base == 2^15

BZero == <<0, 0, 0, 0, 0, 0, 0, 0, 0>>

NL == Len(BZero)

BOne == <<1, 0, 0, 0, 0, 0, 0, 0, 0>>

\* the integer v, 0 <= v < 2^45
BInt(v) == <<v % Base, (v \div Base) % Base, v \div (Base * Base), 0, 0, 0, 0, 0, 0>>

RECURSIVE AddC(_, _, _, _)
AddC(a, b, i, c) ==
    IF i > NL THEN <<>>
    ELSE LET s == a[i] + b[i] + c
         IN  <<s % Base>> \o AddC(a, b, i + 1, s \div Base)

BAdd(a, b) == AddC(a, b, 1, 0)

RECURSIVE SubC(_, _, _, _)
SubC(a, b, i, c) ==
    IF i > NL THEN <<>>
    ELSE LET s == a[i] - b[i] - c
         IN  <<s % Base>> \o SubC(a, b, i + 1, IF s < 0 THEN 1 ELSE 0)

\* a - b for a >= b
BSub(a, b) == SubC(a, b, 1, 0)

RECURSIVE GeqC(_, _, _)
GeqC(a, b, i) ==
    IF i = 0 THEN TRUE
    ELSE IF a[i] # b[i] THEN a[i] > b[i]
    ELSE GeqC(a, b, i - 1)

BGeq(a, b) == GeqC(a, b, NL)

RECURSIVE ShrC(_, _, _)
ShrC(a, t, i) ==
    IF i > NL THEN <<>>
    ELSE <<(a[i] \div 2^t) + (IF i < NL THEN (a[i + 1] % 2^t) * 2^(15 - t) ELSE 0)>>
         \o ShrC(a, t, i + 1)

\* a shifted right by t bits, 0 <= t < 15
BShr(a, t) == ShrC(a, t, 1)

RECURSIVE ShlC(_, _, _)
ShlC(a, t, i) ==
    IF i > NL THEN <<>>
    ELSE <<((a[i] * 2^t) % Base) + (IF i > 1 THEN a[i - 1] \div 2^(15 - t) ELSE 0)>>
         \o ShlC(a, t, i + 1)

\* a shifted left by t bits, 0 <= t < 15
BShl(a, t) == ShlC(a, t, 1)

\* a shifted left by k whole limbs
BShlLimbs(a, k) == SubSeq(BZero, 1, k) \o SubSeq(a, 1, NL - k)

RECURSIVE Bits(_)
Bits(v) == IF v = 0 THEN 0 ELSE 1 + Bits(v \div 2)

RECURSIVE BitLenC(_, _)
BitLenC(a, i) ==
    IF i = 0 THEN 0
    ELSE IF a[i] # 0 THEN 15 * (i - 1) + Bits(a[i])
    ELSE BitLenC(a, i - 1)

\* number of significant bits of a
BitLen(a) == BitLenC(a, NL)

\* a, with `sticky` telling that non-zero bits below the last limb were
\* dropped, rounded to 53 significant bits: to nearest, ties to even
RoundF64(a, sticky) ==
    With(BitLen(a) - 53, LAMBDA t :
        IF t <= 0 THEN a
        ELSE With(BShr(a, t), LAMBDA q :
                 LET rem  == a[1] % 2^t
                     half == 2^(t - 1)
                     up   == \/ rem > half
                             \/ rem = half /\ (sticky \/ q[1] % 2 = 1)
                 IN  With(IF up THEN BAdd(q, BOne) ELSE q, LAMBDA u : BShl(u, t))))

\* one step of the digit-by-digit square root on v = <<n, res, bit>>
ISqrtStep(v) ==
    IF BGeq(v[1], BAdd(v[2], v[3]))
    THEN <<BSub(v[1], BAdd(v[2], v[3])), BAdd(BShr(v[2], 1), v[3]), BShr(v[3], 2)>>
    ELSE <<v[1], BShr(v[2], 1), BShr(v[3], 2)>>

RECURSIVE ISqrtSteps(_, _)
\* at most k steps
ISqrtSteps(v, k) ==
    IF k = 0 \/ v[3] = BZero THEN v
    ELSE With(ISqrtStep(v), LAMBDA w : ISqrtSteps(w, k - 1))

RECURSIVE ISqrtLoop(_)
\* floor(sqrt(n)), one bit of the root per step; `exact`: n is a square
ISqrtLoop(v) ==
    IF v[3] = BZero THEN [root |-> v[2], exact |-> v[1] = BZero]
    ELSE With(ISqrtSteps(v, 8), LAMBDA w : ISqrtLoop(w))

\* np.sqrt(r) of an integer 0 <= r < 2^14: floor(sqrt(r * 2^120)), rounded
F64SqrtInt(r) ==
    With(<<BShlLimbs(BInt(r), 8), BZero, BShlLimbs(BInt(2^14), 8)>>, LAMBDA a :
    With(ISqrtLoop(a), LAMBDA s : RoundF64(s.root, ~s.exact)))

\* a + b in float64
F64Add(a, b) == With(BAdd(a, b), LAMBDA s : RoundF64(s, FALSE))

F64Less(a, b) == ~BGeq(a, b)

----------------------------------------------------------------------------
(* Sessions.  A session is built from a start row by steps                 *)
(* <<dTimestamp, dX, dY>>.  Timestamps never decrease (the game clock);    *)
(* a zero Timestamp delta is the degenerate step of the specification.     *)

Steps ==
    { <<1, 1, 0>>,      \* right
      <<1, 0, 1>>,      \* a right-angle turn: along +Y
      <<1, -1, 0>>,     \* left: heading pi
      <<1, -4, -3>>,    \* left and slightly down: heading -pi + 0.6435
      <<1, 0, 0>>,      \* no displacement: zero velocity
      <<16, 1, 0>>,     \* slow: velocity 1/16, below the pause threshold
      <<0, 1, 0>>,      \* zero Timestamp delta with displacement: 1/0, 0/0
      <<0, 0, 0>>,      \* a repeated row: 0/0
      <<1, -1, -1>>,    \* diagonal, length sqrt(2)
      <<1, -3, -3>> }   \* diagonal, length sqrt(18)

StartRow == <<0, 0, 0>>

Max(S) == CHOOSE m \in S : \A x \in S : x <= m

\* the largest coordinate distance two rows of a session can be apart
Reach == Max({Abs(st[i]) : st \in Steps, i \in {2, 3}}) * MaxLen

BaseColumns == {"Timestamp", "X", "Y"}

\* a Series holds its values: each is computed once, when it is built
Series(f) == f \o <<>>

\* the DataFrame pd.read_csv gives for rows of <<Timestamp, X, Y>>
Frame(rows) ==
    [Timestamp |-> Series([i \in 1..Len(rows) |-> rows[i][1]]),
     X         |-> Series([i \in 1..Len(rows) |-> rows[i][2]]),
     Y         |-> Series([i \in 1..Len(rows) |-> rows[i][3]])]

NRows(d) == Len(d["Timestamp"])

\* the session's rows again, from the three base columns
Rows(d) == Series([i \in 1..NRows(d) |-> <<d["Timestamp"][i], d["X"][i], d["Y"][i]>>])

----------------------------------------------------------------------------
(* pandas Series operations used by extract_features.                      *)

\* an int64 column as float64 values
AsFloat(s) == Series([i \in 1..Len(s) |-> Fin(s[i], 1)])

\* Series.diff(): NaN in the first row
diff(s) == Series([i \in 1..Len(s) |-> IF i = 1 THEN NaN ELSE FSub(s[i], s[i - 1])])

\* a / b, row by row
SeriesDiv(a, b) == Series([i \in 1..Len(a) |-> FDiv(a[i], b[i])])

RECURSIVE SumSeq(_)
SumSeq(s) == IF s = <<>> THEN Zero ELSE FAdd(Head(s), SumSeq(Tail(s)))

\* the values pandas aggregates over: skipna=True drops NaN, nothing else
DropNaN(s) == SelectSeq(s, LAMBDA v : ~IsNaN(v))

\* Series.mean()
mean(s) ==
    With(DropNaN(s), LAMBDA v :
        IF Len(v) = 0 THEN NaN ELSE FDiv(SumSeq(v), Fin(Len(v), 1)))

\* Series.std()**2 with the default ddof=1: NaN for fewer than two values
std_sq(s) ==
    With(DropNaN(s), LAMBDA v :
    With(mean(v), LAMBDA m :
    With(Series([i \in 1..Len(v) |-> With(FSub(v[i], m), LAMBDA dev : FMul(dev, dev))]),
         LAMBDA dev2 :
            IF Len(v) - 1 <= 0 THEN NaN ELSE FDiv(SumSeq(dev2), Fin(Len(v) - 1, 1)))))

\* sqrt(a) < b for a value a = FSqrt(..) and a rational b > 0
SqrtLess(a, b) ==
    IF a.k = "sqrt" THEN FLess(Fin(a.n, a.d), FMul(b, b)) ELSE FLess(a, b)

----------------------------------------------------------------------------
(* Headings.  np.arctan2(vy, vx) is kept as the direction it is the angle  *)
(* of: a vector <<x, y>>, the angle being in (-pi, pi], or NaN.            *)
(* arctan2(0, 0) = 0, the heading of <<1, 0>>.  velocity_x and velocity_y  *)
(* share the Timestamp delta, so both are finite, or each is inf or NaN.   *)

NaNHeading == [k |-> "nan", x |-> 0, y |-> 0]

Heading(x, y) == [k |-> "ang", x |-> x, y |-> y]

arctan2(vy, vx) ==
    IF IsNaN(vy) \/ IsNaN(vx) THEN NaNHeading
    ELSE IF IsInf(vx) /\ IsInf(vy) THEN Heading(vx.n, vy.n)
    ELSE IF IsInf(vx) THEN Heading(vx.n, 0)
    ELSE IF IsInf(vy) THEN Heading(0, vy.n)
    ELSE IF vx.n = 0 /\ vy.n = 0 THEN Heading(1, 0)
    ELSE Heading(vx.n * vy.d, vy.n * vx.d)

Cross(u, v) == u.x * v.y - u.y * v.x

Dot(u, v) == u.x * v.x + u.y * v.y

\* the angle of u is in [0, pi]
UpperHalf(u) == u.y > 0 \/ (u.y = 0)

\* the angle between u and v, in [0, pi], exceeds pi/4
AngleBetweenExceeds(u, v) == Abs(Cross(u, v)) > Dot(u, v)

\* the two angles lie on opposite sides of the +pi/-pi cut of arctan2 with
\* the short way between them crossing it: their difference is 2 pi minus
\* the angle between the headings
AcrossCut(u, v) ==
    \/ UpperHalf(u) /\ ~UpperHalf(v) /\ Cross(u, v) > 0
    \/ UpperHalf(v) /\ ~UpperHalf(u) /\ Cross(v, u) > 0

\* np.abs(h2 - h1) > np.pi/4 ; a comparison with NaN is False
direction_change(h1, h2) ==
    IF h1.k = "nan" \/ h2.k = "nan" THEN FALSE
    ELSE AcrossCut(h1, h2) \/ AngleBetweenExceeds(h1, h2)

----------------------------------------------------------------------------
(* CursorMovementAnalyzer.extract_features                                 *)

\* np.sqrt of every integer dx^2 + dy^2 a session can present
sqrt_table == [r \in {a * a + b * b : a, b \in 0..Reach} |-> F64SqrtInt(r)]

RECURSIVE F64Sum(_)
\* np.sum over float64 values, left to right from 0.0
F64Sum(s) ==
    IF s = <<>> THEN BZero
    ELSE With(F64Sum(SubSeq(s, 1, Len(s) - 1)), LAMBDA acc : F64Add(acc, s[Len(s)]))

\* the quotient num / den of two float64 values, den > 0
Quot(num, den) == [num |-> num, den |-> den]

pause_threshold == Fin(1, 10)

FeatureNames ==
    {"velocity_std", "velocity_mean", "acceleration_std",
     "path_efficiency", "pause_ratio", "direction_changes"}

Returned(v) == [kind |-> "return", exc |-> "", value |-> v]

Raised(e) == [kind |-> "raise", exc |-> e, value |-> <<>>]

\* The columns lines 21-26 assign into the caller's frame.
derived_columns(d) ==
    With([T |-> diff(AsFloat(d["Timestamp"])),
          X |-> diff(AsFloat(d["X"])),
          Y |-> diff(AsFloat(d["Y"]))], LAMBDA delta :
    With([x |-> SeriesDiv(delta.X, delta.T),
          y |-> SeriesDiv(delta.Y, delta.T)], LAMBDA velocity :
    With([x |-> diff(velocity.x), y |-> diff(velocity.y)], LAMBDA dv :
        [velocity_x     |-> velocity.x,
         velocity_y     |-> velocity.y,
         acceleration_x |-> SeriesDiv(dv.x, delta.T),
         acceleration_y |-> SeriesDiv(dv.y, delta.T)])))

\* df after lines 21-26: the four columns are added to (or replaced in) it
assign_columns(d) == derived_columns(d) @@ d

\* features['path_efficiency'], lines 36-39, for a frame of n >= 1 rows
path_efficiency(d) ==
    LET n == NRows(d)
        X == d["X"]
        Y == d["Y"]
        direct_distance ==
            sqrt_table[(X[n] - X[1]) * (X[n] - X[1]) + (Y[n] - Y[1]) * (Y[n] - Y[1])]
        \* the first row of diff() is NaN, which the sum skips
        seg == Series([i \in 1..(n - 1) |->
                  sqrt_table[(X[i + 1] - X[i]) * (X[i + 1] - X[i])
                             + (Y[i + 1] - Y[i]) * (Y[i + 1] - Y[i])]])
    IN  With(seg, LAMBDA sg :
        With(F64Sum(sg), LAMBDA path_distance :
            IF path_distance # BZero THEN Quot(direct_distance, path_distance)
            ELSE Quot(BZero, BOne)))

\* features['pause_ratio'], lines 42-43: np.mean over all n rows
pause_ratio(d2) ==
    LET n == NRows(d2)
        velocity_magnitude ==
            Series([i \in 1..n |-> FSqrt(FAdd(FMul(d2.velocity_x[i], d2.velocity_x[i]),
                                              FMul(d2.velocity_y[i], d2.velocity_y[i])))])
    IN  With(velocity_magnitude, LAMBDA vm :
            IF n = 0 THEN NaN
            ELSE Fin(Cardinality({i \in 1..n : SqrtLess(vm[i], pause_threshold)}), n))

\* features['direction_changes'], lines 46-48
direction_changes(d2) ==
    LET n == NRows(d2)
        direction == Series([i \in 1..n |-> arctan2(d2.velocity_y[i], d2.velocity_x[i])])
    IN  With(direction, LAMBDA dir :
            Cardinality({i \in 1..(n - 1) : direction_change(dir[i], dir[i + 1])}))

\* extract_features(df): the frame as the call leaves it, and the outcome
Square(a) == FMul(a, a)

\* the six features of the frame d2, which holds the derived columns
features_of(d2) ==
    [velocity_std      |-> FSqrt(FAdd(std_sq(d2.velocity_x), std_sq(d2.velocity_y))),
     velocity_mean     |-> With(<<mean(d2.velocity_x), mean(d2.velocity_y)>>, LAMBDA m :
                               FSqrt(FAdd(Square(m[1]), Square(m[2])))),
     acceleration_std  |-> FSqrt(FAdd(std_sq(d2.acceleration_x), std_sq(d2.acceleration_y))),
     path_efficiency   |-> path_efficiency(d2),
     pause_ratio       |-> pause_ratio(d2),
     direction_changes |-> direction_changes(d2)]

\* extract_features(df): the frame as the call leaves it, and the outcome
extract_features(d) ==
    With(assign_columns(d), LAMBDA d2 :
        [df  |-> d2,
         out |-> IF NRows(d2) = 0
                 THEN Raised("IndexError")     \* df['X'].iloc[-1], line 36
                 ELSE Returned(features_of(d2))])

----------------------------------------------------------------------------
(* src/game.py: the game's constants, and its state before the loop.       *)

WIDTH == 800

HEIGHT == 600

START_SCREEN == 0

PLAYING == 1

GAME_OVER == 2

ANALYSIS_SCREEN == 3

player_size == 20

player_speed == 4

MOVEMENT_FILE == "movement.csv"

CURSOR_FILE == "cursor.csv"

None == "None"

\* pygame.Rect(x, y, width, height)
Rect(x, y, width, height) == [x |-> x, y |-> y, w |-> width, h |-> height]

\* Rect.colliderect: the two rectangles overlap (touching edges do not)
colliderect(a, b) ==
    /\ a.x < b.x + b.w
    /\ b.x < a.x + a.w
    /\ a.y < b.y + b.h
    /\ b.y < a.y + a.h

create_walls ==
    << Rect(100, 100, WIDTH - 200, 20),
       Rect(100, HEIGHT - 120, WIDTH - 200, 20),
       Rect(100, 100, 20, HEIGHT - 200),
       Rect(WIDTH - 120, 100, 20, HEIGHT - 200),
       Rect(250, 100, 20, 200),
       Rect(400, HEIGHT - 320, 20, 200),
       Rect(550, 100, 20, 200),
       Rect(250, 400, 200, 20),
       Rect(450, 200, 200, 20) >>

check_collision(pos, walls) ==
    LET player_rect == Rect(pos[1] - player_size \div 2, pos[2] - player_size \div 2,
                            player_size, player_size)
    IN  \E i \in 1..Len(walls) : colliderect(player_rect, walls[i])

\* Enemy.__init__; where the enemy stands is left to the hit tests' inputs
Enemy == [head_hits |-> 0, body_hits |-> 0]

is_dead(enemy) == enemy.head_hits >= 1 \/ enemy.body_hits >= 2

\* create_random_enemies(walls, player_pos, num_enemies=3)
num_enemies == 3

\* the number of enemies create_random_enemies places is num_enemies, or
\* less when its 100 random attempts run out; the game is played here with
\* none and with one
EnemyCounts == {n \in {0, 1} : n <= num_enemies}

\* init_game(), with n the number of enemies placed
init_game(n) ==
    [player_pos |-> <<150, HEIGHT - 150>>,
     walls      |-> create_walls,
     enemies    |-> [i \in 1..n |-> Enemy] \o <<>>,
     game_state |-> START_SCREEN,
     game_won   |-> FALSE,
     data_saved |-> FALSE]

\* record_movement(timestamp, x, y, movement_list): the list afterwards
record_movement(timestamp, x, y, movement_list) ==
    Append(movement_list, <<timestamp, x, y>>)

\* save_movements_to_csv(): the files afterwards; an empty list writes nothing
save_movements_to_csv(fs, pm, cm) ==
    [fs EXCEPT ![MOVEMENT_FILE] = IF pm # <<>> THEN pm ELSE @,
               ![CURSOR_FILE]   = IF cm # <<>> THEN cm ELSE @]

\* the four module globals of the movement tracking
Tracking(pm, cm, lp, lc) ==
    [player_movements |-> pm, cursor_movements |-> cm,
     last_player_pos  |-> lp, last_cursor_pos  |-> lc]

\* clear_movement_data() with cursor_movements left out of its `global`
\* statement: the assignment binds a local and the list keeps its rows
clear_movement_data_local(g) ==
    [tracking |-> Tracking(<<>>, g.cursor_movements, None, None),
     files    |-> [f \in {MOVEMENT_FILE, CURSOR_FILE} |-> <<>>]]

\* clear_movement_data(): the globals g afterwards, and both files holding
\* the header only
clear_movement_data(g) ==
    [tracking |-> Tracking(<<>>, <<>>, None, None),
     files    |-> [f \in {MOVEMENT_FILE, CURSOR_FILE} |-> <<>>]]

\* lines 35-38 and 246-256: the state when the loop is entered, n enemies
\* having been placed
GameLoaded(n) ==
    /\ game_data = init_game(n)
    /\ \E c \in {clear_movement_data(Tracking(<<>>, <<>>, None, None))} :
          /\ player_movements = c.tracking.player_movements
          /\ cursor_movements = c.tracking.cursor_movements
          /\ last_player_pos = c.tracking.last_player_pos
          /\ last_cursor_pos = c.tracking.last_cursor_pos
          /\ files = c.files
    /\ current_time = 0
    /\ running = TRUE
    /\ pc = "top"
    /\ session_start = 0
    /\ analyses = 0

InitGame == \E n \in EnemyCounts : GameLoaded(n)

----------------------------------------------------------------------------
(* The analyzer before any call: __init__ builds an unfitted scaler and an *)
(* unfitted classifier.                                                    *)

Unfitted == [fitted |-> FALSE, data |-> <<>>, labels |-> <<>>]

NoCall == [op |-> "none", kind |-> "none", exc |-> "", value |-> <<>>, degenerate |-> FALSE]

\* the record of a call: what was called and how it ended.  `degenerate`
\* tells, of a train_model call, that its training set was empty or its
\* labels were of a single class.
Call(op, out) ==
    [op |-> op, kind |-> out.kind, exc |-> out.exc, value |-> out.value,
     degenerate |-> FALSE]

InitAnalyzer ==
    /\ scaler = Unfitted
    /\ model = Unfitted
    /\ trained = FALSE
    /\ ret = NoCall

----------------------------------------------------------------------------
(* SpecFeat: a caller builds a session row by row and hands the frame to   *)
(* extract_features.                                                       *)

InitFeat ==
    /\ InitAnalyzer
    /\ nan_ok = FALSE          \* extract_features does not use scikit-learn
    /\ df = Frame(<<>>)
    /\ GameLoaded(num_enemies)      \* the game loop is not run

\* the caller appends a row to the session
AppendRow ==
    /\ ret.op = "none"
    /\ NRows(df) < MaxLen
    /\ \E st \in Steps, rows \in {Rows(df)} :
          LET last == rows[Len(rows)]
              row  == IF rows = <<>> THEN StartRow
                      ELSE <<last[1] + st[1], last[2] + st[2], last[3] + st[3]>>
          IN  df' = Frame(Append(rows, row))
    /\ UNCHANGED <<ret, scaler, model, trained, nan_ok, game_vars>>

\* features = analyzer.extract_features(df)
CallExtractFeatures ==
    /\ ret.op = "none"
    /\ \E r \in {extract_features(df)} :
           /\ df' = r.df
           /\ ret' = Call("extract_features", r.out)
    /\ UNCHANGED <<scaler, model, trained, nan_ok, game_vars>>

NextFeat == AppendRow \/ CallExtractFeatures

SpecFeat == InitFeat /\ [][NextFeat]_vars

----------------------------------------------------------------------------
(* scikit-learn, as far as train_model and predict_movement_type use it.   *)
(* StandardScaler.fit resets the scaler, then validates its input (at      *)
(* least one row, no inf; NaN is let through) and fits.  The forest's fit  *)
(* validates (same number of rows and labels; NaN refused by the releases  *)
(* that do not support missing values) before it changes anything.         *)
(* transform and predict raise NotFittedError on an unfitted estimator.    *)

Values6(f) ==
    {f.velocity_std, f.velocity_mean, f.acceleration_std, f.pause_ratio}

HasInf(f) == \E v \in Values6(f) : IsInf(v)

HasNaN(f) == \E v \in Values6(f) : IsNaN(v)

Range(s) == {s[i] : i \in 1..Len(s)}

\* self.scaler.fit(features): the scaler afterwards and the outcome
scaler_fit(rows, data) ==
    IF Len(rows) = 0 \/ \E i \in 1..Len(rows) : HasInf(rows[i])
    THEN [scaler |-> Unfitted, out |-> Raised("ValueError")]
    ELSE [scaler |-> [fitted |-> TRUE, data |-> data, labels |-> <<>>],
          out    |-> Returned(<<>>)]

\* self.model.fit(features_scaled, labels): the classifier afterwards and
\* the outcome
model_fit(m, rows, data, labels, nanok) ==
    IF Len(labels) # Len(rows) \/ (~nanok /\ \E i \in 1..Len(rows) : HasNaN(rows[i]))
    THEN [model |-> m, out |-> Raised("ValueError")]
    ELSE [model |-> [fitted |-> TRUE, data |-> data, labels |-> labels],
          out   |-> Returned(<<>>)]

\* self.scaler.transform(features.values.reshape(1, -1))
scaler_transform(sc, f) ==
    IF ~sc.fitted THEN Raised("NotFittedError")
    ELSE IF HasInf(f) THEN Raised("ValueError")
    ELSE Returned(<<>>)

\* max(probabilities[0]) in percent: a forest that saw one class is certain
Confidences(m) == IF Cardinality(Range(m.labels)) = 1 THEN {100} ELSE {50, 75, 100}

\* a forest that answers "human" when it was never fitted instead of
\* raising: the silent default verdict
model_predict_default(m, f, nanok) ==
    IF ~m.fitted
    THEN {Returned([prediction |-> "human", confidence |-> 100, features |-> f])}
    ELSE IF HasNaN(f) /\ ~nanok THEN {Raised("ValueError")}
    ELSE {Returned([prediction |-> IF c = 1 THEN "human" ELSE "bot",
                    confidence |-> p,
                    features   |-> f]) : c \in Range(m.labels), p \in Confidences(m)}

\* self.model.predict / predict_proba: the outcomes the fitted forest can
\* give.  It answers with one of the classes it was fitted on.
model_predict(m, f, nanok) ==
    IF ~m.fitted THEN {Raised("NotFittedError")}
    ELSE IF HasNaN(f) /\ ~nanok THEN {Raised("ValueError")}
    ELSE {Returned([prediction |-> IF c = 1 THEN "human" ELSE "bot",
                    confidence |-> p,
                    features   |-> f]) : c \in Range(m.labels), p \in Confidences(m)}

----------------------------------------------------------------------------
(* Sessions handed to the analyzer in Spec.                                *)

RECURSIVE Session(_)
\* the rows of the session that starts at StartRow and makes the steps
Session(steps) ==
    IF steps = <<>> THEN <<StartRow>>
    ELSE With(Session(SubSeq(steps, 1, Len(steps) - 1)), LAMBDA rows :
         LET last == rows[Len(rows)]
             st   == steps[Len(steps)]
         IN  Append(rows, <<last[1] + st[1], last[2] + st[2], last[3] + st[3]>>))

EmptySession == <<>>

\* four rows, two turns: every feature is a finite number
CleanSession == Session(<< <<1, 1, 0>>, <<1, 0, 1>>, <<1, -1, 0>> >>)

\* two rows: velocity_std and acceleration_std are NaN
ShortSession == Session(<< <<1, 1, 0>> >>)

\* a zero Timestamp delta with displacement: velocity_mean is inf
ZeroDeltaSession == Session(<< <<1, 1, 0>>, <<0, 1, 0>> >>)

PredictPool == {EmptySession, CleanSession, ShortSession, ZeroDeltaSession}

TrainPool == {EmptySession, CleanSession, ZeroDeltaSession}

Labels == {0, 1}

SeqsUpTo(S, n) == UNION {[1..k -> S] : k \in 0..n}

\* extract_features of each pool session, computed once
pool_features == [s \in PredictPool \cup TrainPool |-> extract_features(Frame(s))]

----------------------------------------------------------------------------
(* CursorMovementAnalyzer.predict_movement_type and train_model            *)

\* predict_movement_type(cursor_data): the possible outcomes
predict_movement_type(sc, m, nanok, cursor_data) ==
    LET e == pool_features[cursor_data]
        t == scaler_transform(sc, e.out.value)
    IN  IF e.out.kind = "raise" THEN {e.out}
        ELSE IF t.kind = "raise" THEN {t}
        ELSE model_predict(m, e.out.value, nanok)

\* the same on a frame that is not one of the pool
predict_frame(sc, m, nanok, frame) ==
    With(extract_features(frame), LAMBDA e :
        LET t == scaler_transform(sc, e.out.value)
        IN  IF e.out.kind = "raise" THEN {e.out}
            ELSE IF t.kind = "raise" THEN {t}
            ELSE model_predict(m, e.out.value, nanok))

\* train_model(training_data, labels): scaler and classifier afterwards,
\* and the outcome
train_model(sc, m, nanok, training_data, labels) ==
    LET n      == Len(training_data)
        ex     == Series([i \in 1..n |-> pool_features[training_data[i]].out])
        failed == {i \in 1..n : ex[i].kind = "raise"}
        rows   == Series([i \in 1..n |-> ex[i].value])
        sf     == scaler_fit(rows, training_data)
        mf     == model_fit(m, rows, training_data, labels, nanok)
    IN  IF failed # {}                   \* line 67 raises; nothing is fitted
        THEN [scaler |-> sc, model |-> m, out |-> ex[Max(failed)]]
        ELSE IF sf.out.kind = "raise"    \* line 68 raises
        THEN [scaler |-> sf.scaler, model |-> m, out |-> sf.out]
        ELSE [scaler |-> sf.scaler, model |-> mf.model, out |-> mf.out]

\* the training set is empty, or its labels are of one class only
Degenerate(training_data, labels) ==
    Len(training_data) = 0 \/ Cardinality(Range(labels)) < 2

----------------------------------------------------------------------------
(* Spec: calls of train_model and predict_movement_type on one analyzer.   *)

Init ==
    /\ InitAnalyzer
    /\ nan_ok \in BOOLEAN
    /\ df = Frame(<<>>)
    /\ GameLoaded(num_enemies)      \* the game loop is not run

\* result = analyzer.predict_movement_type(cursor_data)
CallPredict ==
    \E cursor_data \in PredictPool :
        /\ \E out \in predict_movement_type(scaler, model, nan_ok, cursor_data) :
              ret' = Call("predict_movement_type", out)
        /\ df' = pool_features[cursor_data].df
        /\ UNCHANGED <<scaler, model, trained, nan_ok, game_vars>>

\* analyzer.train_model(training_data, labels)
CallTrain ==
    \E training_data \in SeqsUpTo(TrainPool, MaxTrain), labels \in SeqsUpTo(Labels, MaxTrain) :
        \E r \in {train_model(scaler, model, nan_ok, training_data, labels)} :
            /\ scaler' = r.scaler
            /\ model' = r.model
            /\ ret' = [Call("train_model", r.out) EXCEPT
                          !.degenerate = Degenerate(training_data, labels)]
            /\ trained' = (trained \/ r.out.kind = "return")
            /\ UNCHANGED <<df, nan_ok, game_vars>>

Next == CallPredict \/ CallTrain

Spec == Init /\ [][Next]_vars

----------------------------------------------------------------------------
(* Properties of train_model and predict_movement_type, under Spec.        *)

\* C1: a predict_movement_type call made while no train_model call has yet
\* returned normally ends in an error; it never returns a verdict.
C1_PredictBeforeTrainRaises ==
    (ret.op = "predict_movement_type" /\ ~trained) => ret.kind = "raise"

\* C1, reached: a prediction asked of an analyzer whose only training failed
\* after the scaler was fitted; the unfitted forest raised.
C1_UntrainedPredictRaised ==
    /\ ret.op = "predict_movement_type"
    /\ ~trained
    /\ scaler.fitted
    /\ ret.kind = "raise"
    /\ ret.exc = "NotFittedError"

\* C2: the fitted state is replaced atomically: whenever the scaler is
\* fitted, the classifier is fitted too, and on the same training set.
C2_AtomicRetrain ==
    scaler.fitted => (model.fitted /\ model.data = scaler.data)

\* C3: a train_model call whose training set is empty or whose labels are of
\* a single class ends in an error.
C3_DegenerateTrainRaises ==
    (ret.op = "train_model" /\ ret.degenerate) => ret.kind = "raise"

----------------------------------------------------------------------------
(* Properties of extract_features, under SpecFeat.  They are stated over   *)
(* the session itself: the rows of the base columns and the steps between  *)
(* consecutive rows.                                                       *)

Extracted == ret.op = "extract_features"

NSteps(rows) == IF Len(rows) = 0 THEN 0 ELSE Len(rows) - 1

\* <<dTimestamp, dX, dY>> from row i to row i + 1
StepOf(rows, i) ==
    <<rows[i + 1][1] - rows[i][1], rows[i + 1][2] - rows[i][2], rows[i + 1][3] - rows[i][3]>>

PositiveDeltas(rows) == \A i \in 1..NSteps(rows) : StepOf(rows, i)[1] > 0

\* C4: extract_features on a session of 0 rows or 1 row ends in a failure;
\* it never returns a feature vector.
C4_ShortSessionRaises ==
    (Extracted /\ NRows(df) < 2) => ret.kind = "raise"

\* equal time step and equal displacement in every step
ConstantVelocity(rows) ==
    /\ Len(rows) >= 2
    /\ StepOf(rows, 1)[1] > 0
    /\ \A i \in 1..NSteps(rows) : StepOf(rows, i) = StepOf(rows, 1)

\* C5: for a session of n >= 2 rows of constant velocity, velocity_std and
\* acceleration_std are both 0.
C5_ConstantVelocityStdZero ==
    (Extracted /\ ConstantVelocity(Rows(df))) =>
        /\ ret.kind = "return"
        /\ ret.value.velocity_std = FSqrt(Zero)
        /\ ret.value.acceleration_std = FSqrt(Zero)

HasZeroDelta(rows) == \E i \in 1..NSteps(rows) : StepOf(rows, i)[1] = 0

\* a / b, row by row, undefined (NaN) wherever the divisor is zero
DefinedDiv(a, b) ==
    Series([i \in 1..Len(a) |->
               IF IsFin(b[i]) /\ b[i].n = 0 THEN NaN ELSE FDiv(a[i], b[i])])

\* the derived columns with every zero-delta step undefined
defined_columns(d) ==
    With([T |-> diff(AsFloat(d["Timestamp"])),
          X |-> diff(AsFloat(d["X"])),
          Y |-> diff(AsFloat(d["Y"]))], LAMBDA delta :
    With([x |-> DefinedDiv(delta.X, delta.T),
          y |-> DefinedDiv(delta.Y, delta.T)], LAMBDA velocity :
    With([x |-> diff(velocity.x), y |-> diff(velocity.y)], LAMBDA dv :
        [velocity_x     |-> velocity.x,
         velocity_y     |-> velocity.y,
         acceleration_x |-> DefinedDiv(dv.x, delta.T),
         acceleration_y |-> DefinedDiv(dv.y, delta.T)])))

\* C6: for a session with a zero-delta step, extract_features raises nothing
\* and velocity_mean, velocity_std and acceleration_std are those of the
\* defined steps only.
C6_ZeroDeltaExcluded ==
    (Extracted /\ NRows(df) >= 2 /\ HasZeroDelta(Rows(df))) =>
        /\ ret.kind = "return"
        /\ \E f \in {features_of(defined_columns(df) @@ df)} :
              /\ ret.value.velocity_mean = f.velocity_mean
              /\ ret.value.velocity_std = f.velocity_std
              /\ ret.value.acceleration_std = f.acceleration_std

\* C7: after extract_features the caller's frame holds exactly the columns
\* Timestamp, X and Y.
C7_InputColumnsUnchanged ==
    Extracted => DOMAIN df = BaseColumns

\* both steps move, and the angle between their displacements exceeds pi/4
AbruptTurn(s1, s2) ==
    /\ s1[2] # 0 \/ s1[3] # 0
    /\ s2[2] # 0 \/ s2[3] # 0
    /\ AngleBetweenExceeds(Heading(s1[2], s1[3]), Heading(s2[2], s2[3]))

AbruptTurns(rows) ==
    Cardinality({i \in 1..(NSteps(rows) - 1) :
                    AbruptTurn(StepOf(rows, i), StepOf(rows, i + 1))})

\* C8: direction_changes is the number of consecutive step pairs whose true
\* change of heading exceeds pi/4; a pair with a zero-velocity step is not
\* counted.
C8_DirectionChangesTrueTurns ==
    (Extracted /\ ret.kind = "return" /\ PositiveDeltas(Rows(df))) =>
        ret.value.direction_changes = AbruptTurns(Rows(df))

\* the step's velocity magnitude is below 0.1
SlowStep(st) == 100 * (st[2] * st[2] + st[3] * st[3]) < st[1] * st[1]

SlowSteps(rows) == Cardinality({i \in 1..NSteps(rows) : SlowStep(StepOf(rows, i))})

\* C9: pause_ratio is the number of steps slower than 0.1 divided by the
\* number of steps, n - 1.
C9_PauseRatioOverSteps ==
    (Extracted /\ ret.kind = "return" /\ NRows(df) >= 2 /\ PositiveDeltas(Rows(df))) =>
        ret.value.pause_ratio = Fin(SlowSteps(Rows(df)), NSteps(Rows(df)))

PathLengthZero(rows) ==
    \A i \in 1..NSteps(rows) : StepOf(rows, i)[2] = 0 /\ StepOf(rows, i)[3] = 0

ReturnsToStart(rows) ==
    rows[Len(rows)][2] = rows[1][2] /\ rows[Len(rows)][3] = rows[1][3]

\* C10: for a session of n >= 2 rows path_efficiency is in [0, 1]; it is 0
\* when the path length is 0 and when the last row is where the first was.
C10_PathEfficiencyRange ==
    (Extracted /\ ret.kind = "return" /\ NRows(df) >= 2) =>
        LET pe == ret.value.path_efficiency
        IN  /\ ~F64Less(pe.den, pe.num)
            /\ PathLengthZero(Rows(df)) => pe.num = BZero
            /\ ReturnsToStart(Rows(df)) => pe.num = BZero

----------------------------------------------------------------------------
(* SpecGame: the main loop of src/game.py, lines 258-372.  One iteration   *)
(* reads the clock, handles the pending events one by one, then runs the   *)
(* part that depends on game_state.                                        *)

\* most iterations of the loop in a behaviour
MaxFrames == 4

\* milliseconds between two reads of the clock: clock.tick(60) waits until
\* 16 ms (1000/60, truncated) have passed since the last tick
FrameDeltas == {16, 17}

\* what pygame.mouse.get_pos() may give
CursorPositions == {<<0, 0>>, <<1, 0>>}

\* the WASD keys pygame.key.get_pressed() may report as held
KeySets == {{}, {"s", "d"}}

\* the methods of CursorMovementAnalyzer (src/ai.py)
Methods == {"load_data", "extract_features", "predict_movement_type", "train_model"}

\* an analyzer on which csvreader is defined, as another name of load_data
getattr_csvreader(name) ==
    IF name \in Methods \cup {"csvreader"} THEN Returned(name)
    ELSE Raised("AttributeError")

\* analyzer.<name>: the bound method, or AttributeError
getattr(name) ==
    IF name \in Methods THEN Returned(name) ELSE Raised("AttributeError")

\* lines 356-357: the outcomes of the two calls in the try block
analysis(sc, m, nanok, fs) ==
    LET csvreader == getattr("csvreader")
    IN  IF csvreader.kind = "raise" THEN {csvreader}
        ELSE predict_frame(sc, m, nanok, Frame(fs[CURSOR_FILE]))

\* lines 358-361: game_data after an analysis that returned
analysis_returned(gd, out) ==
    [is_human |-> out.value.prediction = "human"]
        @@ [gd EXCEPT !.data_saved = TRUE, !.game_state = ANALYSIS_SCREEN]

\* an except branch that sets the verdict only: the session stays in
\* PLAYING with data_saved False
analysis_raised_blocking(gd, out) ==
    [is_human |-> TRUE] @@ gd

\* lines 362-366: game_data after an analysis that raised
analysis_raised(gd, out) ==
    [is_human |-> TRUE]
        @@ [gd EXCEPT !.data_saved = TRUE, !.game_state = ANALYSIS_SCREEN]

\* line 259
ReadClock ==
    /\ pc = "top"
    /\ running
    /\ \E d \in FrameDeltas :
          /\ current_time + d <= MaxFrames * Max(FrameDeltas)
          /\ current_time' = current_time + d
    /\ pc' = "events"
    /\ UNCHANGED <<analyzer_vars, game_data, player_movements, cursor_movements,
                   last_player_pos, last_cursor_pos, running, files, session_start,
                   analyses>>

\* lines 262-264: pygame.QUIT
Quit ==
    /\ pc = "events"
    /\ files' = save_movements_to_csv(files, player_movements, cursor_movements)
    /\ running' = FALSE
    /\ UNCHANGED <<analyzer_vars, game_data, player_movements, cursor_movements,
                   last_player_pos, last_cursor_pos, current_time, pc, session_start,
                   analyses>>

\* the globals and the files after clear_movement_data()
Cleared ==
    \E c \in {clear_movement_data(Tracking(player_movements, cursor_movements,
                                           last_player_pos, last_cursor_pos))} :
        /\ player_movements' = c.tracking.player_movements
        /\ cursor_movements' = c.tracking.cursor_movements
        /\ last_player_pos' = c.tracking.last_player_pos
        /\ last_cursor_pos' = c.tracking.last_cursor_pos
        /\ files' = c.files
        /\ session_start' = current_time

\* lines 266-269: the R key, in any state
KeyR ==
    /\ pc = "events"
    /\ \E n \in EnemyCounts : game_data' = init_game(n)
    /\ Cleared          \* the files save_movements_to_csv() wrote are overwritten
    /\ analyses' = 0
    /\ UNCHANGED <<analyzer_vars, current_time, running, pc>>

\* lines 270-272: the SPACE key on the start screen
KeySpace ==
    /\ pc = "events"
    /\ game_data.game_state = START_SCREEN
    /\ game_data' = [game_data EXCEPT !.game_state = PLAYING]
    /\ Cleared
    /\ UNCHANGED <<analyzer_vars, current_time, running, pc, analyses>>

\* lines 273-281: a mouse click while playing.  The enemies stand at least
\* 100 apart, so the click is on the head or the body of at most one of
\* them; a click on none, or with a wall in the line of sight, changes
\* nothing.  The player shoots the enemies in the order of the list.
MouseButtonDown ==
    /\ pc = "events"
    /\ game_data.game_state = PLAYING
    /\ \E i \in 1..Len(game_data.enemies), hit \in {"head", "body"} :
          /\ ~is_dead(game_data.enemies[i])
          /\ \A j \in 1..(i - 1) : is_dead(game_data.enemies[j])
          /\ game_data' =
                IF hit = "head"
                THEN [game_data EXCEPT !.enemies[i].head_hits = @ + 1]
                ELSE [game_data EXCEPT !.enemies[i].body_hits = @ + 1]
    /\ UNCHANGED <<analyzer_vars, player_movements, cursor_movements, last_player_pos,
                   last_cursor_pos, current_time, running, files, pc, session_start,
                   analyses>>

\* lines 302-306 and 310-314: one tracker.  The first position seen is kept
\* and not recorded; later a position is recorded when it differs from the
\* last one seen.  [last, list] afterwards.
track(last, current, timestamp, movement_list) ==
    IF last = None THEN [last |-> current, list |-> movement_list]
    ELSE IF current # last
         THEN [last |-> current,
               list |-> record_movement(timestamp, current[1], current[2], movement_list)]
    ELSE [last |-> last, list |-> movement_list]

\* lines 317-326: the position the held keys ask for
new_pos(pos, keys) ==
    <<pos[1] - (IF "a" \in keys THEN player_speed ELSE 0)
             + (IF "d" \in keys THEN player_speed ELSE 0),
      pos[2] - (IF "w" \in keys THEN player_speed ELSE 0)
             + (IF "s" \in keys THEN player_speed ELSE 0)>>

\* lines 298-366: the PLAYING branch, with the cursor at c and keys held
Playing(c, keys) ==
    LET gd       == game_data
        tracked  == ~gd.game_won
        tp       == IF tracked
                    THEN track(last_player_pos, gd.player_pos, current_time, player_movements)
                    ELSE [last |-> last_player_pos, list |-> player_movements]
        tc       == IF tracked
                    THEN track(last_cursor_pos, c, current_time, cursor_movements)
                    ELSE [last |-> last_cursor_pos, list |-> cursor_movements]
        moved    == tracked /\ ~check_collision(new_pos(gd.player_pos, keys), gd.walls)
        all_dead == \A i \in 1..Len(gd.enemies) : is_dead(gd.enemies[i])
        gd1      == [gd EXCEPT !.player_pos = IF moved THEN new_pos(@, keys) ELSE @,
                               !.game_won   = IF all_dead THEN TRUE ELSE @]
        attempt  == all_dead /\ ~gd.data_saved
        fs1      == IF attempt THEN save_movements_to_csv(files, tp.list, tc.list)
                    ELSE files
    IN  /\ player_movements' = tp.list
        /\ last_player_pos' = tp.last
        /\ cursor_movements' = tc.list
        /\ last_cursor_pos' = tc.last
        /\ files' = fs1
        /\ IF attempt
           THEN \E out \in analysis(scaler, model, nan_ok, fs1) :
                   /\ game_data' = IF out.kind = "return" THEN analysis_returned(gd1, out)
                                   ELSE analysis_raised(gd1, out)
                   /\ ret' = Call(IF getattr("csvreader").kind = "raise" THEN "csvreader"
                                  ELSE "predict_movement_type", out)
                   /\ analyses' = analyses + 1
           ELSE /\ game_data' = gd1
                /\ UNCHANGED <<ret, analyses>>
        /\ UNCHANGED <<df, scaler, model, trained, nan_ok>>

\* lines 283-372: the rest of the iteration.  The start screen and the
\* analysis screen only draw.
Body ==
    /\ pc = "events"
    /\ pc' = "top"
    /\ IF game_data.game_state = PLAYING
       THEN \E c \in CursorPositions, keys \in KeySets : Playing(c, keys)
       ELSE UNCHANGED <<analyzer_vars, game_data, player_movements, cursor_movements,
                        last_player_pos, last_cursor_pos, files, analyses>>
    /\ UNCHANGED <<current_time, running, session_start>>

NextGame == ReadClock \/ Quit \/ KeyR \/ KeySpace \/ MouseButtonDown \/ Body

InitGameSpec ==
    /\ InitAnalyzer           \* analyzer = CursorMovementAnalyzer(), line 249
    /\ nan_ok = FALSE         \* the game never reaches scikit-learn
    /\ df = Frame(<<>>)
    /\ InitGame

SpecGame == InitGameSpec /\ [][NextGame]_vars

----------------------------------------------------------------------------
(* Properties of the game loop, under SpecGame.                            *)

\* consecutive rows of the list are at least 16.67 ms apart
Spaced(movement_list) ==
    \A i \in 1..(Len(movement_list) - 1) :
        100 * (movement_list[i + 1][1] - movement_list[i][1]) >= 1667

\* C11: the recorder emits nothing on its first observation, and any two
\* consecutive recorded samples of a session are at least the sampling
\* interval of 16.67 time units apart.
C11_SamplesSpaced ==
    /\ Spaced(player_movements)
    /\ Spaced(cursor_movements)
    /\ last_cursor_pos = None => cursor_movements = <<>>
    /\ last_player_pos = None => player_movements = <<>>

\* C12: when all enemies are dead while playing and the analysis raises,
\* the same step sets is_human, data_saved and ANALYSIS_SCREEN; the analysis
\* is attempted at most once per session.
C12_AnalysisFailureNotBlocking ==
    /\ analyses <= 1
    /\ game_data.game_won => analyses = 1
    /\ (analyses = 1 /\ ret.kind = "raise") =>
          /\ "is_human" \in DOMAIN game_data
          /\ game_data.is_human = TRUE
          /\ game_data.data_saved
          /\ game_data.game_state = ANALYSIS_SCREEN

\* C12, reached: a session with recorded cursor samples was won, its
\* analysis raised, and the analysis screen shows
C12_FailedAnalysisShown ==
    /\ analyses = 1
    /\ ret.kind = "raise"
    /\ game_data.game_won
    /\ game_data.game_state = ANALYSIS_SCREEN
    /\ cursor_movements # <<>>

Timestamps(movement_list) == {movement_list[i][1] : i \in 1..Len(movement_list)}

\* every row held, in the lists and in the files, was recorded after the
\* session's start
SinceStart ==
    \A t \in Timestamps(player_movements) \cup Timestamps(cursor_movements)
             \cup Timestamps(files[MOVEMENT_FILE]) \cup Timestamps(files[CURSOR_FILE]) :
        t > session_start

\* right after a reset or a start the lists are empty and the last
\* positions None
FreshAtStart ==
    (pc = "events" /\ session_start = current_time) =>
        /\ player_movements = <<>>
        /\ cursor_movements = <<>>
        /\ last_player_pos = None
        /\ last_cursor_pos = None

\* a step that records a sample starts in PLAYING with game_won False
RecordsOnlyWhilePlaying ==
    (\/ Len(player_movements') > Len(player_movements)
     \/ Len(cursor_movements') > Len(cursor_movements)) =>
        (game_data.game_state = PLAYING /\ ~game_data.game_won)

\* C13: no sample history is carried across sessions: the lists are empty
\* and the last positions None after every reset and every start, the data
\* saved holds only samples recorded since the session's start, and samples
\* are recorded only in PLAYING while game_won is False.
C13_NoHistoryAcrossSessions ==
    /\ [](SinceStart /\ FreshAtStart)
    /\ [][RecordsOnlyWhilePlaying]_vars

\* C13, reached: a second session, begun after a session that recorded
\* samples, has recorded a sample of its own
C13_SecondSessionRecorded ==
    /\ session_start > Max(FrameDeltas)
    /\ game_data.game_state = PLAYING
    /\ cursor_movements # <<>>

\* C14: the analyzer of the game is never trained and the win handler's
\* analyzer.csvreader raises AttributeError: every session that is won shows
\* the analysis screen with is_human True, and is_human is never False.
C14_BotVerdictUnreachable ==
    /\ ~trained /\ ~scaler.fitted /\ ~model.fitted
    /\ "is_human" \in DOMAIN game_data => game_data.is_human = TRUE
    /\ game_data.game_won =>
          /\ game_data.game_state = ANALYSIS_SCREEN
          /\ "is_human" \in DOMAIN game_data
          /\ ret.op = "csvreader"
          /\ ret.exc = "AttributeError"

\* C14, reached: a session with two recorded cursor samples was won and the
\* verdict shown is "human"
C14_WonSessionShowsHuman ==
    /\ game_data.game_state = ANALYSIS_SCREEN
    /\ game_data.is_human = TRUE
    /\ Len(files[CURSOR_FILE]) >= 2
    /\ ret.exc = "AttributeError"

====
